---- MODULE Spec2Model ----
(***************************************************************************)
(* The per-frame animation loop of src/anim2.js: the particle grass field  *)
(* (blade scroll, recycling, visibility), the particle trail (ring buffer, *)
(* emission timer, aging) and the camera clamp, driven by animate(); the   *)
(* instanced-grass frame loop of src/script.js; the hologram fragment      *)
(* shaders of both files; the trimming of the run clip in the load         *)
(* callback; the queueing of the next frame at the entry of animate().     *)
(*                                                                         *)
(* Units.  The source computes in floating point; the model computes on    *)
(* fixed grids, exactly:                                                   *)
(*   time, delta, lifetimes, emissionTimer : milliseconds                  *)
(*   lengths and positions                 : 1/1000 of a world unit        *)
(*   velocities                            : 1/1000 world unit per second  *)
(*   Math.random() results                 : 1/1000 (0 .. 999)             *)
(*   alpha                                 : 1/AlphaDen                    *)
(* Products that leave the grid are rounded down to it.                    *)
(***************************************************************************)
EXTENDS Integers, Sequences, FiniteSets, TLC

(***************************************************************************)
(* Program constants (anim2.js), in the units above.                       *)
(***************************************************************************)
grassRadius == 12
runSpeed == 8
DeltaCap == 33
emissionRate == 20
Sentinel == -1000

(***************************************************************************)
(* Bounds of the model.  numBlades, particlesPerBlade, particlesPerEmit    *)
(* and trailMaxLife stand for the source's 10000, 20, 20 and 4 s, scaled   *)
(* down; MaxFrames caps the number of frames explored.                     *)
(***************************************************************************)
numBlades == 2
particlesPerBlade == 2
particlesPerEmit == 2
trailMaxLife == 60
MaxFrames == 6
\* instances of the instanced page (count: 10000 in script.js 546)
instCount == 2

\* Mutant: a buffer for the particles of one lifetime only, without headroom.
maxTrailParticles_Tight == particlesPerEmit * (trailMaxLife \div emissionRate)

\* The trail capacity, scaled with the other trail bounds so that, as with the
\* source's 50000 against 20 * (4 / 0.02), the buffer is larger than the number
\* of particles that can be alive at once.
maxTrailParticles == particlesPerEmit * ((trailMaxLife \div emissionRate) + 3)

R == grassRadius * 1000
SentinelY == Sentinel * 1000
AlphaDen == 5 * trailMaxLife

Slots == 0 .. (maxTrailParticles - 1)
BladeIds == 0 .. (numBlades - 1)
totalParticles == numBlades * particlesPerBlade
GrassIdx == 0 .. (totalParticles - 1)

\* clock.getDelta() results explored, in ms: two fast frames and a stall of
\* 4 s (the tab was in the background).  The first call starts the clock and
\* returns 0.
ClockDeltas == {10, 20, 4000}

(***************************************************************************)
(* Math.random(): a deterministic stream of values in [0, 1) fixed by a    *)
(* hidden seed.  The model picks one of these cyclic streams at start-up   *)
(* and hands out its values in call order.                                 *)
(***************************************************************************)
RandStreams ==
  << << 250, 0, 11, 500, 500, 0, 999 >>,
     << 0, 999, 0, 999, 0, 250, 500 >>,
     << 500, 250, 500, 0, 999, 125, 11 >>,
     << 999, 875, 999, 250, 125, 750, 0 >>,
     << 375, 125, 985, 500, 250, 750, 0 >> >>

\* Math.cos(r * Math.PI * 2) for the stream's values r, in 1/1000.
Cos2Pi(r) ==
  CASE r = 0 -> 1000  [] r = 11 -> 998   [] r = 125 -> 707  [] r = 250 -> 0
    [] r = 375 -> -707 [] r = 500 -> -1000 [] r = 625 -> -707 [] r = 750 -> 0
    [] r = 875 -> 707  [] r = 999 -> 1000

\* Math.sqrt(r) for the stream's values r, in 1/1000.
Sqrt01(r) ==
  CASE r = 0 -> 0    [] r = 11 -> 105  [] r = 125 -> 354 [] r = 250 -> 500
    [] r = 375 -> 612 [] r = 500 -> 707 [] r = 625 -> 791 [] r = 750 -> 866
    [] r = 875 -> 935 [] r = 999 -> 999

\* Math.sin(r * Math.PI * 2) for the stream's values r, in 1/1000.
Sin2Pi(r) ==
  CASE r = 0 -> 0     [] r = 11 -> 69   [] r = 125 -> 707  [] r = 250 -> 1000
    [] r = 375 -> 707 [] r = 500 -> 0   [] r = 625 -> -707 [] r = 750 -> -1000
    [] r = 875 -> -707 [] r = 999 -> -6

Min(a, b) == IF a <= b THEN a ELSE b
Max(a, b) == IF a >= b THEN a ELSE b

(***************************************************************************)
(* Fixed-point Math.sin, Math.cos, Math.hypot and Math.pow(t, 1.2).        *)
(* Angles are in 1/1000 rad, results of sin and cos in 1/1000.             *)
(***************************************************************************)
Pi == 3142
TwoPi == 2 * Pi

\* sin on [0, pi]: 16 y (pi - y) / (5 pi^2 - 4 y (pi - y))
SinHalf(y) ==
  LET p == (y * (Pi - y)) \div 1000
  IN  (16000 * p) \div (((5 * Pi * Pi) \div 1000) - (4 * p))

Sin(x) ==
  LET y == x % TwoPi
  IN  IF y <= Pi THEN SinHalf(y) ELSE -SinHalf(y - Pi)

Cos(x) == Sin(x + (Pi \div 2))

RECURSIVE SqrtIter(_, _)
SqrtIter(n, x) ==
  LET y == (x + (n \div x)) \div 2
  IN  IF y >= x THEN x ELSE SqrtIter(n, y)

ISqrt(n) == IF n <= 0 THEN 0 ELSE SqrtIter(n, n)

\* Math.hypot(dx, dz), computed on a 1/100 grid to stay within the integer range
Hypot(dx, dz) ==
  LET a == dx \div 10
      b == dz \div 10
  IN  10 * ISqrt((a * a) + (b * b))

\* Math.pow(t, 1.2) for the height fractions t = i / (particlesPerBlade - 1)
Pow12(t) ==
  CASE t = 0 -> 0
    [] t = 250 -> 189 [] t = 333 -> 268 [] t = 500 -> 435
    [] t = 666 -> 615 [] t = 750 -> 708 [] t = 1000 -> 1000

VARIABLES
  pc,                \* position inside animate(): "idle" between frames
  frame,             \* frames completed
  loadState,         \* GLTF load: "pending", "loaded" or "failed"
  deerModel,         \* TRUE once the load callback has stored the model
  mixerTime,         \* time fed to mixer.update since the mixer exists
  shaderTime,        \* uniforms.time.value of the deer's shader materials
  clockDelta,        \* clock.getDelta() of the current frame
  delta,             \* the frame's capped delta
  time,              \* clock.getElapsedTime()
  rngSeed,           \* which stream Math.random() follows
  rngPos,            \* Math.random() calls made so far
  grassBladeData,    \* blade metadata
  grassPositions,    \* grass position buffer: particle -> <<x, y, z>>
  currentTrailIndex,
  emissionTimer,
  prevDeerPos,
  deerPosInitialized,
  trailPositions,    \* slot -> <<x, y, z>>
  trailVelocities,   \* slot -> <<vx, vy, vz>>
  trailLifetimes,
  trailAlphas,
  trailSizes,
  emitted,           \* history: particles spawned so far
  slotSeq,           \* history: slot -> number of the particle last written to it, -1 if none
  page,              \* which frame loop the page runs: "anim2" or "instanced"
  scrolled,          \* history: total distance the grass has been scrolled
  cameraPos,         \* camera.position
  controlsTarget,    \* controls.target, the point the camera looks at
  needsUpdate,       \* attribute buffers flagged for upload and not yet drawn
  unflagged,         \* history: buffers mutated since their flag was last set
  instanceOffsets,   \* instanced page: instOffsetsAttr.array, instance -> <<x, y, z>>
  originalInstanceOffsets,
  shaderVariant,     \* fragment shader under evaluation
  viewDotNormal,     \* its input abs(dot(viewDirection, normal)), in 1/1000
  fragAlpha,         \* gl_FragColor.a it produced, in 1/1000; -1 before it has run
  rafPending,        \* a requestAnimationFrame(animate) callback is queued
  gltfClip,          \* the "Rundeer" clip of gltf.animations, as decoded from the asset
  runClip            \* the trimmed copy handed to the mixer; NoClip before the load

grassVars == << grassBladeData, grassPositions, scrolled >>
trailVars == << currentTrailIndex, emissionTimer, prevDeerPos, deerPosInitialized, trailPositions,
                trailVelocities, trailLifetimes, trailAlphas, trailSizes, emitted, slotSeq >>
frameVars == << clockDelta, delta, time, mixerTime, shaderTime, rafPending >>
camVars == << cameraPos, controlsTarget >>
gpuVars == << needsUpdate, unflagged >>
instVars == << instanceOffsets, originalInstanceOffsets >>
shaderVars == << shaderVariant, viewDotNormal, fragAlpha >>
clipVars == << gltfClip, runClip >>
vars == << pc, frame, loadState, deerModel, rngSeed, rngPos, frameVars, grassVars, trailVars,
           page, camVars, gpuVars, instVars, shaderVars, clipVars >>

\* The k-th value (k = 0, 1, ...) of the Math.random() stream with seed s.
RandomOf(s, k) == RandStreams[s][(k % Len(RandStreams[s])) + 1]
Random(k) == RandomOf(rngSeed, k)

(***************************************************************************)
(* Grass: blade generation (anim2.js 221-269).                             *)
(***************************************************************************)
\* baseX = Math.cos(angle) * radius, radius = Math.sqrt(Math.random()) * grassRadius
SeedX(rAngle, rRadius) == (Cos2Pi(rAngle) * (Sqrt01(rRadius) * grassRadius)) \div 1000

\* Mutant: the draw is not centred on 0.
SeedZ_NotCentred(r) == r * grassRadius * 2

\* baseZ = (Math.random() - 0.5) * grassRadius * 2
SeedZ(r) == (r - 500) * grassRadius * 2

\* One blade from its six Math.random() draws, the first of them draw number k.
MakeBlade(s, b, k) ==
  LET baseX  == SeedX(RandomOf(s, k), RandomOf(s, k + 1))
      baseZ  == SeedZ(RandomOf(s, k + 2))
      height == 200 + (RandomOf(s, k + 3) \div 10)
      curve  == (RandomOf(s, k + 4) - 500) \div 10
      n1     == particlesPerBlade - 1
  IN  [ startIndex   |-> b * particlesPerBlade,
        baseX        |-> baseX,
        baseZ        |-> baseZ,
        currentZ     |-> baseZ,
        height       |-> height,
        curve        |-> curve,
        randomOffset |-> (RandomOf(s, k + 5) * TwoPi) \div 1000,
        originalPositions |->
          [ i \in 0 .. n1 |->
              << baseX + ((curve * i * i) \div (n1 * n1)), (height * i) \div n1, baseZ >> ] ]

DrawsPerBlade == 6
DrawsPerSlot == 2

\* trailAlphas[i] = 0.6 + Math.random() * 0.2
InitAlpha(r) == (AlphaDen * (3000 + r)) \div 5000

(***************************************************************************)
(* The instanced page (script.js 489-791): instance offsets seeded in a    *)
(* disk by initOptimizedGrass (optimized-grass.js 78-93), after the patch  *)
(* geometry has made its own Math.random() draws.                          *)
(***************************************************************************)
areaRadius == 50
bladesPerPatch == 70
DrawsPerPatchBlade == 4
DrawsPerInstance == 6
InstIds == 0 .. (instCount - 1)

\* r = Math.sqrt(Math.random()) * areaRadius; x = cos(theta) * r; z = sin(theta) * r
SeedInstance(rRadius, rTheta) ==
  LET r == Sqrt01(rRadius) * areaRadius
  IN  << (Cos2Pi(rTheta) * r) \div 1000, 10, (Sin2Pi(rTheta) * r) \div 1000 >>

InitialOffsets(s) ==
  [ i \in InstIds |->
      LET k == (bladesPerPatch * DrawsPerPatchBlade) + (i * DrawsPerInstance)
      IN  SeedInstance(RandomOf(s, k), RandomOf(s, k + 1)) ]

(***************************************************************************)
(* Camera and orbit controls.  anim2.js 22, 41: the camera starts at       *)
(* (-4, 3, -6) looking at (0, 0.5, 0); script.js 496, 538: at (0, 8, 8)    *)
(* looking at the origin.                                                  *)
(***************************************************************************)
Pages == { "anim2", "instanced" }

InitialCamera(pg) ==
  IF pg = "anim2"
  THEN [ pos |-> << -4000, 3000, -6000 >>, target |-> << 0, 500, 0 >> ]
  ELSE [ pos |-> << 0, 8000, 8000 >>, target |-> << 0, 0, 0 >> ]

\* Attribute buffers the frame loops mutate in place.
Buffers ==
  { "grassPosition", "trailPosition", "trailColor", "trailSize", "trailAlpha", "instanceOffset" }

(***************************************************************************)
(* The run clip and its trimming (anim2.js 168-193, script.js 250-277,     *)
(* 672-700).  A clip is a duration and a list of tracks; a track is        *)
(* a list of keyframe times and the flat list of the keyframes' values,    *)
(* stride values per keyframe.  Times are in ms.                           *)
(***************************************************************************)
startTime == 4700

\* Keyframes per track in the clips explored.
MaxKeys == 3
KeyTimes == { 0, 2350, 4699, 4700, 4701, 6000 }
Strides == { 1, 3, 4 }
ClipDurations == { 4000, 6000 }

RECURSIVE SortedSeq(_)
SortedSeq(S) ==
  IF S = {} THEN << >>
  ELSE LET m == CHOOSE x \in S : \A y \in S : x <= y
       IN  << m >> \o SortedSeq(S \ { m })

\* A track with keyframes at the times of S in increasing order, the value
\* tuple of the keyframe at time t being t + 1, ..., t + stride.
Track(S, stride) ==
  LET ts == SortedSeq(S)
  IN  [ times  |-> ts,
        values |-> [ n \in 1 .. (Len(ts) * stride) |->
                       ts[((n - 1) \div stride) + 1] + ((n - 1) % stride) + 1 ] ]

KeySets == { S \in SUBSET KeyTimes : Cardinality(S) <= MaxKeys }

SampleClips ==
  { [ duration |-> d, tracks |-> << Track(S1, 3), Track(S2, st) >> ] :
      d \in ClipDurations, S1 \in KeySets, S2 \in { {}, { 4700 }, { 0, 4701, 6000 } },
      st \in Strides }

AssetClip == [ duration |-> 6000, tracks |-> << Track({ 0, 4700, 6000 }, 3) >> ]
NoClip == [ duration |-> 0, tracks |-> << >> ]

\* Mutant: a keyframe exactly at the cutoff is dropped.
KeepsKey_Strict(t) == t > startTime

\* if (times[i] >= startTime)
KeepsKey(t) == t >= startTime

\* for (let i = 0; i < times.length; i++) { ... }, i counted from 1
RECURSIVE TrimLoop(_, _, _, _)
TrimLoop(track, i, newTimes, newValues) ==
  LET stride == Len(track.values) \div Len(track.times)
  IN  IF i > Len(track.times)
      THEN [ times |-> newTimes, values |-> newValues ]
      ELSE IF KeepsKey(track.times[i])
           THEN TrimLoop(track, i + 1, Append(newTimes, track.times[i] - startTime),
                         newValues \o SubSeq(track.values, ((i - 1) * stride) + 1, i * stride))
           ELSE TrimLoop(track, i + 1, newTimes, newValues)

\* runClip.tracks.forEach(...); runClip.duration = endTime - startTime
TrimmedClip(clip) ==
  [ duration |-> clip.duration - startTime,
    tracks   |-> [ k \in 1 .. Len(clip.tracks) |-> TrimLoop(clip.tracks[k], 1, << >>, << >>) ] ]

(***************************************************************************)
(* The state once the module's top-level code has run, before the first    *)
(* animate() call (anim2.js 206-404).                                      *)
(***************************************************************************)
ProgramInit ==
  \E s \in 1 .. Len(RandStreams) :
    /\ rngSeed = s
    /\ page \in Pages
    /\ rngPos = IF page = "anim2"
                THEN (numBlades * DrawsPerBlade) + (maxTrailParticles * DrawsPerSlot)
                ELSE (bladesPerPatch * DrawsPerPatchBlade) + (instCount * DrawsPerInstance)
    /\ originalInstanceOffsets = InitialOffsets(s)
    /\ instanceOffsets = InitialOffsets(s)
    /\ cameraPos = InitialCamera(page).pos
    /\ controlsTarget = InitialCamera(page).target
    /\ needsUpdate = {}
    /\ unflagged = {}
    /\ scrolled = 0
    /\ grassBladeData = [ b \in BladeIds |-> MakeBlade(s, b, b * DrawsPerBlade) ]
    /\ grassPositions =
         [ p \in GrassIdx |->
             MakeBlade(s, p \div particlesPerBlade, (p \div particlesPerBlade) * DrawsPerBlade)
               .originalPositions[p % particlesPerBlade] ]
    /\ trailPositions = [ i \in Slots |-> << 0, 0, 0 >> ]
    /\ trailVelocities = [ i \in Slots |-> << 0, 0, 0 >> ]
    /\ trailSizes = [ i \in Slots |-> 300 ]
    /\ trailLifetimes = [ i \in Slots |-> 0 ]
    /\ trailAlphas =
         [ i \in Slots |->
             InitAlpha(RandomOf(s, (numBlades * DrawsPerBlade) + (i * DrawsPerSlot))) ]
    /\ currentTrailIndex = 0
    /\ emissionTimer = 0
    /\ prevDeerPos = << 0, 0, 0 >>
    /\ deerPosInitialized = FALSE
    /\ emitted = 0
    /\ slotSeq = [ i \in Slots |-> -1 ]
    /\ pc = "idle"
    /\ frame = 0
    /\ loadState = "pending"
    /\ deerModel = FALSE
    /\ mixerTime = 0
    /\ shaderTime = 0
    /\ clockDelta = 0
    /\ delta = 0
    /\ time = 0
    /\ rafPending = FALSE

\* No fragment is being shaded apart from the frame loop's own drawing; the
\* asset holds one run clip.
Init ==
  /\ ProgramInit
  /\ gltfClip = AssetClip
  /\ runClip = NoClip
  /\ shaderVariant = "none"
  /\ viewDotNormal = 0
  /\ fragAlpha = -1

(***************************************************************************)
(* GLTF load callbacks (anim2.js 118-203).  They run between frames, and   *)
(* never before the first animate() call, which the module makes           *)
(* synchronously while the load is still in flight.                        *)
(***************************************************************************)
LoadModel ==
  /\ pc = "idle"
  /\ frame >= 1
  /\ loadState = "pending"
  /\ loadState' = "loaded"
  /\ deerModel' = TRUE
  /\ runClip' = TrimmedClip(gltfClip)
  /\ UNCHANGED << pc, frame, rngSeed, rngPos, frameVars, grassVars, trailVars,
                  page, camVars, gpuVars, instVars, shaderVars, gltfClip >>

\* Mutant: the error callback installs a placeholder model.
DeerModelAfterError_Placeholder(dm) == TRUE

\* (error) => console.error(...): deerModel is left as it is
DeerModelAfterError(dm) == dm

LoadError ==
  /\ pc = "idle"
  /\ frame >= 1
  /\ loadState = "pending"
  /\ loadState' = "failed"
  /\ deerModel' = DeerModelAfterError(deerModel)
  /\ UNCHANGED << pc, frame, rngSeed, rngPos, frameVars, grassVars, trailVars,
                  page, camVars, gpuVars, instVars, shaderVars, clipVars >>

(***************************************************************************)
(* animate(), first part (anim2.js 406-425): the frame's delta and time.   *)
(***************************************************************************)
\* Mutant: the clock's delta is used as it comes.
CappedDelta_Uncapped(cd) == cd

\* Math.min(clock.getDelta(), 0.033)
CappedDelta(cd) == Min(cd, DeltaCap)

\* Mutant: animate() does not ask for the next frame.
RequestedAtEntry_NotRequested == FALSE

\* requestAnimationFrame(animate), the first statement of animate()
RequestedAtEntry == TRUE

\* One invocation of animate(): the module's own call (anim2.js 655) or the
\* browser running the queued callback, which takes it off the queue.
BeginFrame ==
  /\ pc = "idle"
  /\ frame < MaxFrames
  /\ frame = 0 \/ rafPending
  /\ rafPending' = RequestedAtEntry
  /\ \E cd \in (IF frame = 0 THEN {0} ELSE ClockDeltas) :
       /\ clockDelta' = cd
       /\ delta' = CappedDelta(cd)
       /\ time' = time + cd
       /\ shaderTime' = IF deerModel THEN shaderTime + CappedDelta(cd) ELSE shaderTime
       /\ mixerTime' = IF deerModel THEN mixerTime + CappedDelta(cd) ELSE mixerTime
  /\ pc' = IF page = "anim2" THEN "grass" ELSE "wrap"
  /\ UNCHANGED << frame, loadState, deerModel, rngSeed, rngPos, grassVars, trailVars,
                  page, camVars, gpuVars, instVars, shaderVars, clipVars >>

(***************************************************************************)
(* animate(), grass update (anim2.js 437-502).                             *)
(***************************************************************************)
\* Mutant: the blade is never recycled.
AdvanceZ_NoRecycle(z, d) == z - (runSpeed * d)

\* Mutant: a blade exactly at -R is recycled too.
AdvanceZ_RecycleAtEdge(z, d) ==
  LET z1 == z - (runSpeed * d)
  IN  IF z1 <= -R THEN z1 + (R * 2) ELSE z1

\* blade.currentZ -= runSpeed * delta; recycle if too far behind
AdvanceZ(z, d) ==
  LET z1 == z - (runSpeed * d)
  IN  IF z1 < -R THEN z1 + (R * 2) ELSE z1

\* Mutant: a blade exactly on the circle is hidden.
IsVisible_Strict(x, z) == ((x * x) + (z * z)) < (R * R)

\* currentDist <= grassRadius, currentDist = Math.sqrt(x * x + z * z)
IsVisible(x, z) == ((x * x) + (z * z)) <= (R * R)

\* Mutant: the centres orbit in place, without the world offset.
RippleCentre_NoDrift(n, t) ==
  CASE n = 1 -> << Cos((t * 3) \div 10) * 4, Sin((t * 3) \div 10) * 3 >>
    [] n = 2 -> << Cos(((t * 4) \div 10) + Pi) * 3, Sin(((t * 4) \div 10) + Pi) * 4 >>
    [] n = 3 -> << Cos((t \div 4) + (Pi \div 2)) * 5, Sin((t \div 4) + (Pi \div 2)) * 3 >>

\* The three ripple centres of the frame (anim2.js 420-435): << x, z >>
RippleCentre(n, t) ==
  LET worldOffset == t * runSpeed
  IN  CASE n = 1 -> << Cos((t * 3) \div 10) * 4, (Sin((t * 3) \div 10) * 3) - worldOffset >>
        [] n = 2 -> << Cos(((t * 4) \div 10) + Pi) * 3,
                       (Sin(((t * 4) \div 10) + Pi) * 4) - worldOffset >>
        [] n = 3 -> << Cos((t \div 4) + (Pi \div 2)) * 5,
                       (Sin((t \div 4) + (Pi \div 2)) * 3) - worldOffset >>

\* rippleEffect_n = Math.max(0, 1 - dist / falloff) * Math.sin(time * f - dist * k) * gain
RippleEffect(n, x, z, t) ==
  LET c    == RippleCentre(n, t)
      dist == Hypot(x - c[1], z - c[2])
  IN  CASE n = 1 -> (((Max(0, 1000 - (dist \div 6))
                        * Sin((t * 2) - ((dist * 3) \div 10))) \div 1000) * 15) \div 10
        [] n = 2 -> (((Max(0, 1000 - (dist \div 5))
                        * Sin(((t * 22) \div 10) - ((dist * 35) \div 100))) \div 1000) * 12)
                      \div 10
        [] n = 3 -> (((Max(0, 1000 - (dist \div 7))
                        * Sin(((t * 18) \div 10) - (dist \div 4))) \div 1000) * 14) \div 10

TotalRippleBase(x, z, t) ==
  RippleEffect(1, x, z, t) + RippleEffect(2, x, z, t) + RippleEffect(3, x, z, t)

\* Mutant: the influence never drops below 0.1.
Influence_Floor(i) == Max(100, Pow12((i * 1000) \div (particlesPerBlade - 1)))

\* influence = Math.pow(i / (particlesPerBlade - 1), 1.2)
Influence(i) == Pow12((i * 1000) \div (particlesPerBlade - 1))

\* The position written for particle i of a visible blade (anim2.js 474-494).
Displaced(blade, i, t) ==
  LET grassX      == blade.baseX
      grassZ      == blade.currentZ
      influence   == Influence(i)
      wave        == (Sin(t + blade.randomOffset + (grassZ \div 10)) * influence) \div 1000
      wave2       == (Cos(((t * 8) \div 10) + (blade.randomOffset * 2) + ((grassX * 8) \div 100))
                        * influence) \div 1000
      wave3       == (Sin(((t * 6) \div 10) + ((grassZ * 15) \div 100) + ((grassX * 12) \div 100))
                        * influence) \div 1000
      totalRipple == (TotalRippleBase(grassX, grassZ, t) * influence) \div 1000
  IN  << blade.originalPositions[i][1] + ((wave * 4) \div 10) + ((wave2 * 2) \div 10)
           + ((totalRipple * 4) \div 10),
         blade.originalPositions[i][2],
         grassZ + ((wave3 * 15) \div 100) + ((totalRipple * 25) \div 100) >>

\* grassGeometry.attributes.position.needsUpdate = true
GrassFlagged == { "grassPosition" }

\* Mutant: a hidden particle is moved away in all three coordinates.
HiddenWrite_AllCoordinates(old) == << SentinelY, SentinelY, SentinelY >>

\* positions[particleIdx * 3 + 1] = -1000: the x and z entries are not written
HiddenWrite(old) == << old[1], SentinelY, old[3] >>

\* Mutant: the blade's seed position is scrolled along with it.
AdvanceBlade_MovesBase(blade, d) ==
  [ blade EXCEPT !.currentZ = AdvanceZ(@, d), !.baseZ = AdvanceZ(@, d) ]

\* The blade's record after the frame's advance: only currentZ is assigned.
AdvanceBlade(blade, d) ==
  [ blade EXCEPT !.currentZ = AdvanceZ(@, d) ]

GrassStep ==
  /\ pc = "grass"
  /\ grassBladeData' = [ b \in BladeIds |-> AdvanceBlade(grassBladeData[b], delta) ]
  /\ grassPositions' =
       [ p \in GrassIdx |->
           LET blade == grassBladeData'[p \div particlesPerBlade]
               i     == p % particlesPerBlade
           IN  IF IsVisible(blade.baseX, blade.currentZ)
               THEN Displaced(blade, i, time)
               ELSE HiddenWrite(grassPositions[p]) ]
  /\ scrolled' = scrolled + (runSpeed * delta)
  /\ unflagged' = (unflagged \cup { "grassPosition" }) \ GrassFlagged
  /\ needsUpdate' = needsUpdate \cup GrassFlagged
  /\ pc' = "emit"
  /\ UNCHANGED << frame, loadState, deerModel, rngSeed, rngPos, frameVars, trailVars,
                  page, camVars, instVars, shaderVars, clipVars >>

(***************************************************************************)
(* animate(), trail emission (anim2.js 507-584).  The deer is held at      *)
(* (0, 0.5, 0) facing +z (anim2.js 138-139, 424).                          *)
(***************************************************************************)
DeerWorldPos == << 0, 500, 0 >>
DeerForward == << 0, 0, 1 >>
\* deerRight = deerForward x (0, 1, 0), normalized
DeerRight == << (DeerForward[2] * 0) - (DeerForward[3] * 1),
                (DeerForward[3] * 0) - (DeerForward[1] * 0),
                (DeerForward[1] * 1) - (DeerForward[2] * 0) >>

VAdd(a, b) == << a[1] + b[1], a[2] + b[2], a[3] + b[3] >>
VSub(a, b) == << a[1] - b[1], a[2] - b[2], a[3] - b[3] >>
VScale(a, k) == << a[1] * k, a[2] * k, a[3] * k >>

\* Math.sign(Math.sin(time * 0.8)) || 1 : the sine is positive on the first half
\* of each period of 2 pi / 0.8 s = 7853.982 ms, and 0 at time 0.
SideSign(t) ==
  IF t = 0 THEN 1
  ELSE IF ((t * 1000) % 7853982) < 3926991 THEN 1 ELSE -1

\* trailAlphas[currentTrailIndex] = 0.8
SpawnAlpha == (AlphaDen * 4) \div 5

\* Mutant: the write index skips a slot.
NextIndex_Skip(i) == (i + 2) % maxTrailParticles

\* Mutant: the write index runs backwards.
NextIndex_Back(i) == (i + maxTrailParticles - 1) % maxTrailParticles

\* currentTrailIndex = (currentTrailIndex + 1) % maxTrailParticles
NextIndex(i) == (i + 1) % maxTrailParticles

\* The trail state the emission loop works on, as one record.
TrailRec ==
  [ pos |-> trailPositions, vel |-> trailVelocities, life |-> trailLifetimes,
    alpha |-> trailAlphas, size |-> trailSizes, idx |-> currentTrailIndex,
    timer |-> emissionTimer, rng |-> rngPos, emitted |-> emitted, seq |-> slotSeq ]

\* One iteration of the burst loop (anim2.js 562-580): write one particle at the
\* write index, whatever the slot holds, and advance the index.
EmitParticle(tr, spawnPos, baseV) ==
  LET i  == tr.idx
      k  == tr.rng
      jx == Random(k) - 500
      jy == (Random(k + 1) - 500) \div 2
      jz == Random(k + 2) - 500
  IN  [ tr EXCEPT !.pos[i]   = VAdd(spawnPos, << jx, jy, jz >>),
                  !.vel[i]   = baseV,
                  !.life[i]  = trailMaxLife,
                  !.alpha[i] = SpawnAlpha,
                  !.size[i]  = 800 + ((Random(k + 3) * 1400) \div 1000),
                  !.seq[i]   = tr.emitted,
                  !.emitted  = @ + 1,
                  !.idx      = NextIndex(i),
                  !.rng      = k + 4 ]

RECURSIVE EmitParticles(_, _, _, _)
EmitParticles(tr, b, spawnPos, baseV) ==
  IF b < particlesPerEmit
  THEN EmitParticles(EmitParticle(tr, spawnPos, baseV), b + 1, spawnPos, baseV)
  ELSE tr

\* Mutant: the timer is reset instead of decremented, losing the remainder.
TimerAfterBurst_Reset(t) == 0

\* emissionTimer -= emissionRate
TimerAfterBurst(t) == t - emissionRate

\* Mutant: the side sign is left out.
Lateral_Unsigned(r, sideSign) == 100 + ((r * 800) \div 1000)

\* const lateral = (0.1 + Math.random() * 0.8) * sideSign
Lateral(r, sideSign) == (100 + ((r * 800) \div 1000)) * sideSign

\* One pass of the while loop's body (anim2.js 542-582).
EmitBurst(tr, sideSign) ==
  LET k         == tr.rng
      lateral   == Lateral(Random(k), sideSign)
      back      == 200 + ((Random(k + 1) * 180) \div 1000)
      backSpeed == 9000 + (Random(k + 2) * 2)
      baseVY    == (Random(k + 3) - 500) * 5
      spawnPos  == VAdd(VAdd(VAdd(DeerWorldPos, << 0, 1500, 0 >>),
                             VScale(DeerRight, lateral)),
                        VScale(DeerForward, -back))
      baseV     == << (-DeerForward[1] * backSpeed) + (DeerRight[1] * lateral),
                      baseVY,
                      (-DeerForward[3] * backSpeed) + (DeerRight[3] * lateral) >>
      after     == EmitParticles([ tr EXCEPT !.rng = k + 4 ], 0, spawnPos, baseV)
  IN  [ after EXCEPT !.timer = TimerAfterBurst(@) ]

\* while (emissionTimer >= emissionRate) { ... }
RECURSIVE EmissionLoop(_, _)
EmissionLoop(tr, sideSign) ==
  IF tr.timer >= emissionRate
  THEN EmissionLoop(EmitBurst(tr, sideSign), sideSign)
  ELSE tr

\* Apply the deer's movement since the previous frame to the live particles.
MoveWithDeer(pos) ==
  IF deerPosInitialized
  THEN [ p \in Slots |->
           IF trailLifetimes[p] > 0
           THEN VAdd(pos[p], VSub(DeerWorldPos, prevDeerPos))
           ELSE pos[p] ]
  ELSE pos

\* Mutant: the emitter is taken to be there from the first frame.
EmitterPresent_Always == TRUE

\* if (deerModel) { ... }
EmitterPresent == deerModel

\* Mutant: the position is recorded after the spawn height has been added.
DeerPosRecorded_AfterOffset == VAdd(DeerWorldPos, << 0, 1500, 0 >>)

\* prevDeerPos.copy(deerWorldPos), before deerWorldPos.y += 1.5
DeerPosRecorded == DeerWorldPos

\* The trail attribute buffers a tick writes before the aging step: positions
\* by the deer movement loop, all four by a spawn.
EmitMutated(bursts) ==
  (IF deerPosInitialized /\ (\E p \in Slots : trailLifetimes[p] > 0)
   THEN { "trailPosition" } ELSE {})
  \cup (IF bursts > 0
        THEN { "trailPosition", "trailColor", "trailSize", "trailAlpha" } ELSE {})

EmitStep ==
  /\ pc = "emit"
  /\ IF EmitterPresent
     THEN LET start == [ TrailRec EXCEPT !.pos = MoveWithDeer(@),
                                         !.timer = @ + delta ]
              tr    == EmissionLoop(start, SideSign(time))
          IN  /\ prevDeerPos' = DeerPosRecorded
              /\ unflagged' = unflagged \cup EmitMutated(tr.emitted - emitted)
              /\ deerPosInitialized' = TRUE
              /\ trailPositions' = tr.pos
              /\ trailVelocities' = tr.vel
              /\ trailLifetimes' = tr.life
              /\ trailAlphas' = tr.alpha
              /\ trailSizes' = tr.size
              /\ currentTrailIndex' = tr.idx
              /\ emissionTimer' = tr.timer
              /\ rngPos' = tr.rng
              /\ emitted' = tr.emitted
              /\ slotSeq' = tr.seq
     ELSE UNCHANGED << rngPos, trailVars, unflagged >>
  /\ pc' = "age"
  /\ UNCHANGED << frame, loadState, deerModel, rngSeed, frameVars, grassVars,
                  page, camVars, needsUpdate, instVars, shaderVars, clipVars >>

(***************************************************************************)
(* animate(), age + integrate (anim2.js 586-608).                          *)
(***************************************************************************)
\* v *= 0.995
Damp(v) == (v * 995) \div 1000

\* Mutant: the alpha is not clamped at 0.
AgedAlpha_NoClamp(life) == (life * AlphaDen) \div trailMaxLife

\* Math.max(0, trailLifetimes[i] / trailMaxLife)
AgedAlpha(life) == Max(0, (life * AlphaDen) \div trailMaxLife)

\* Mutant: the size is left as it is.
Shrink_None(sz) == sz

\* trailSizes[i] *= 0.998
Shrink(sz) == (sz * 998) \div 1000

\* Mutant: a slot at lifetime 0 is aged too.
IsLive_NonNegative(life) == life >= 0

\* The test that selects the integrate branch: trailLifetimes[i] > 0
IsLive(life) == life > 0

\* The trail attribute buffers the aging loop writes: position and alpha in both
\* branches, size for live particles.
AgeMutated ==
  { "trailPosition", "trailAlpha" }
  \cup (IF \E i \in Slots : IsLive(trailLifetimes[i]) THEN { "trailSize" } ELSE {})

\* Mutant: the alpha buffer is not flagged.
TrailFlagged_NoAlpha == { "trailPosition", "trailColor", "trailSize" }

\* position, color, aSize and aAlpha .needsUpdate = true
TrailFlagged == { "trailPosition", "trailColor", "trailSize", "trailAlpha" }

AgeStep ==
  /\ pc = "age"
  /\ trailLifetimes' =
       [ i \in Slots |->
           IF IsLive(trailLifetimes[i]) THEN trailLifetimes[i] - delta ELSE trailLifetimes[i] ]
  /\ trailVelocities' =
       [ i \in Slots |->
           IF IsLive(trailLifetimes[i])
           THEN << Damp(trailVelocities[i][1]), Damp(trailVelocities[i][2]),
                   Damp(trailVelocities[i][3]) >>
           ELSE trailVelocities[i] ]
  /\ trailPositions' =
       [ i \in Slots |->
           IF IsLive(trailLifetimes[i])
           THEN << trailPositions[i][1] + ((trailVelocities'[i][1] * delta) \div 1000),
                   trailPositions[i][2] + ((trailVelocities'[i][2] * delta) \div 1000),
                   trailPositions[i][3] + ((trailVelocities'[i][3] * delta) \div 1000) >>
           ELSE << trailPositions[i][1], SentinelY, trailPositions[i][3] >> ]
  /\ trailAlphas' =
       [ i \in Slots |->
           IF IsLive(trailLifetimes[i]) THEN AgedAlpha(trailLifetimes'[i]) ELSE 0 ]
  /\ trailSizes' =
       [ i \in Slots |->
           IF IsLive(trailLifetimes[i]) THEN Shrink(trailSizes[i]) ELSE trailSizes[i] ]
  /\ unflagged' = (unflagged \cup AgeMutated) \ TrailFlagged
  /\ needsUpdate' = needsUpdate \cup TrailFlagged
  /\ pc' = "clamp"
  /\ UNCHANGED << frame, loadState, deerModel, rngSeed, rngPos, frameVars, grassVars,
                  currentTrailIndex, emissionTimer, prevDeerPos, deerPosInitialized,
                  emitted, slotSeq, page, camVars, instVars, shaderVars, clipVars >>

(***************************************************************************)
(* animate(), camera clamp (anim2.js 617-650).  The orbit controls keep    *)
(* the camera aimed at controls.target, so the direction the clamp reads   *)
(* is the one from the camera position to the target; controls.update()    *)
(* inside the clamp takes over the position the clamp has written.         *)
(***************************************************************************)
maxHoriz == (R * 12) \div 10
grassFrontOnlyRadius == (R * 95) \div 100
minCameraY == 600
maxDownwardPitch == -150
NudgeAbove == 200

\* Length of b - a, computed on a 1/10 grid.
Dist3(a, b) ==
  LET dx == (b[1] - a[1]) \div 10
      dy == (b[2] - a[2]) \div 10
      dz == (b[3] - a[3]) \div 10
  IN  10 * ISqrt((dx * dx) + (dy * dy) + (dz * dz))

\* camera.getWorldDirection(camDirCheck).y
LookDirY(pos, target) == ((target[2] - pos[2]) * 1000) \div Dist3(pos, target)

\* Mutant: the whole position is scaled, the height too.
OuterClamp_ScaleAll(pos) ==
  LET d == Hypot(pos[1], pos[3])
  IN  IF d > maxHoriz
      THEN << (pos[1] * maxHoriz) \div d, (pos[2] * maxHoriz) \div d, (pos[3] * maxHoriz) \div d >>
      ELSE pos

\* if (camHorizontalDist > maxHoriz) { x *= scale; z *= scale }
OuterClamp(pos) ==
  LET d == Hypot(pos[1], pos[3])
  IN  IF d > maxHoriz
      THEN << (pos[1] * maxHoriz) \div d, pos[2], (pos[3] * maxHoriz) \div d >>
      ELSE pos

\* Mutant: the downward-pitch nudge is missing.
InnerClamp_NoNudge(pos, d, target) ==
  IF d < grassFrontOnlyRadius
  THEN << pos[1], Max(pos[2], minCameraY), pos[3] >>
  ELSE pos

\* if (camHorizontalDist < grassFrontOnlyRadius) { height clamp; pitch nudge },
\* d being the distance measured before the outer clamp
InnerClamp(pos, d, target) ==
  LET y1 == IF pos[2] < minCameraY THEN minCameraY ELSE pos[2]
      y2 == IF LookDirY(<< pos[1], y1, pos[3] >>, target) < maxDownwardPitch
            THEN Max(y1, minCameraY + NudgeAbove)
            ELSE y1
  IN  IF d < grassFrontOnlyRadius THEN << pos[1], y2, pos[3] >> ELSE pos

ClampStep ==
  /\ pc = "clamp"
  /\ cameraPos' = InnerClamp(OuterClamp(cameraPos), Hypot(cameraPos[1], cameraPos[3]),
                             controlsTarget)
  /\ pc' = "render"
  /\ UNCHANGED << frame, loadState, deerModel, rngSeed, rngPos, frameVars, grassVars, trailVars,
                  page, controlsTarget, gpuVars, instVars, shaderVars, clipVars >>

(***************************************************************************)
(* The instanced page's frame (script.js 738-785), between the shared      *)
(* first part and controls.update(); renderer.render().                    *)
(***************************************************************************)
instRunSpeed == 4
behindCamera == -35
aheadPosition == 60
zoneSize == aheadPosition - behindCamera

\* Camera positions the page's sliders hand over: their initial values, and
\* the side view used when the page has no sliders.
SliderPositions == { << 0, 8000, 8000 >>, << -10000, 5000, -2000 >> }

\* JavaScript's %: the remainder takes the sign of the dividend.
JsMod(a, b) == IF a >= 0 THEN a % b ELSE -((-a) % b)

\* Mutant: a single %, which keeps the sign of a negative dividend.
WrapZ_SingleMod(oz) ==
  JsMod(oz - (behindCamera * 1000), zoneSize * 1000) + (behindCamera * 1000)

\* ((oz - behindCamera) % zoneSize + zoneSize) % zoneSize + behindCamera
WrapZ(oz) ==
  JsMod(JsMod(oz - (behindCamera * 1000), zoneSize * 1000) + (zoneSize * 1000), zoneSize * 1000)
    + (behindCamera * 1000)

\* instOffsetsAttr.needsUpdate = true
InstFlagged == { "instanceOffset" }

InstancedStep ==
  /\ pc = "wrap"
  /\ IF deerModel
     THEN cameraPos' \in SliderPositions
     ELSE cameraPos' = cameraPos
  /\ instanceOffsets' =
       [ i \in InstIds |->
           << originalInstanceOffsets[i][1], 0,
              WrapZ(originalInstanceOffsets[i][3] - (time * instRunSpeed)) >> ]
  /\ unflagged' = (unflagged \cup { "instanceOffset" }) \ InstFlagged
  /\ needsUpdate' = needsUpdate \cup InstFlagged
  /\ pc' = "render"
  /\ UNCHANGED << frame, loadState, deerModel, rngSeed, rngPos, frameVars, grassVars, trailVars,
                  page, controlsTarget, originalInstanceOffsets, shaderVars, clipVars >>

(***************************************************************************)
(* The frame's last part (anim2.js 652-653, script.js 788-789):            *)
(* controls.update() applies the user's orbit, zoom and pan input, then    *)
(* the scene is drawn and the flagged buffers are uploaded.                *)
(***************************************************************************)
\* Poses the user's input can leave the camera in: position and target, the
\* target within controls.minDistance .. maxDistance (2 .. 14.4) of the camera.
CameraPoses ==
  { [ pos |-> << -4000, 3000, -6000 >>,  target |-> << 0, 500, 0 >> ],
    [ pos |-> << -9600, 3000, -12800 >>, target |-> << -6000, 500, -8000 >> ],
    [ pos |-> << 3000, 200, 4000 >>,     target |-> << 0, 500, 0 >> ],
    [ pos |-> << 3000, 200, 4000 >>,     target |-> << 0, -3000, 0 >> ] }

Render ==
  /\ pc = "render"
  /\ \E pose \in CameraPoses :
       /\ cameraPos' = pose.pos
       /\ controlsTarget' = pose.target
  /\ needsUpdate' = {}
  /\ pc' = "idle"
  /\ frame' = frame + 1
  /\ UNCHANGED << loadState, deerModel, rngSeed, rngPos, frameVars, grassVars, trailVars,
                  page, unflagged, instVars, shaderVars, clipVars >>

Next ==
  \/ LoadModel
  \/ LoadError
  \/ BeginFrame
  \/ GrassStep
  \/ EmitStep
  \/ AgeStep
  \/ ClampStep
  \/ InstancedStep
  \/ Render

Spec == Init /\ [][Next]_vars

(***************************************************************************)
(* An exception thrown by the library calls that end animate()             *)
(* (controls.update(), renderer.render()) leaves the function: the frame   *)
(* is not drawn, nothing that was written is undone, and the callback      *)
(* queued at entry stays queued.                                           *)
(***************************************************************************)
FrameThrows ==
  /\ pc = "render"
  /\ pc' = "idle"
  /\ frame' = frame + 1
  /\ UNCHANGED << loadState, deerModel, rngSeed, rngPos, frameVars, grassVars, trailVars,
                  page, camVars, gpuVars, instVars, shaderVars, clipVars >>

FaultNext ==
  \/ Next
  \/ FrameThrows

\* The scheduling of frames does not depend on what Math.random() returns:
\* the faulty loop is explored on the first stream.
FaultInit ==
  /\ Init
  /\ rngSeed = 1

FaultSpec == FaultInit /\ [][FaultNext]_vars

(***************************************************************************)
(* The hologram fragment shaders: anim2.js 76-110, script.js 160-189       *)
(* (first page) and 589-614 (instanced page), each run on one fragment     *)
(* whose view direction and normal have the given dot product.             *)
(***************************************************************************)
ShaderVariants == { "anim2", "script1", "script3" }

\* abs(dot(viewDirection, normal)) in steps of 1 / DotSteps
DotSteps == 50
DotSamples == { (1000 * k) \div DotSteps : k \in 0 .. DotSteps }

\* fresnel = pow(1.0 - abs(dot(viewDirection, normal)), 2.0), 2.5 on the instanced page
Fresnel(v, d) ==
  LET b == 1000 - d
  IN  IF v = "script3"
      THEN (((b * b) \div 1000) * ISqrt(b * 1000)) \div 1000
      ELSE (b * b) \div 1000

\* The factor and the offset of the alpha line, in 1/1000.
AlphaGain(v) == CASE v = "anim2" -> 850 [] v = "script1" -> 850 [] v = "script3" -> 700
AlphaBase(v) == CASE v = "anim2" -> 450 [] v = "script1" -> 300 [] v = "script3" -> 150

\* GLSL clamp(x, 0.0, 1.0)
Clamp01(x) == Max(0, Min(1000, x))

\* float alpha = ...; gl_FragColor = vec4(finalColor, alpha)
HologramAlpha(v, f) ==
  LET line == ((f * AlphaGain(v)) \div 1000) + AlphaBase(v)
  IN  IF v = "anim2" THEN Clamp01(line) ELSE line

ShaderInit ==
  /\ ProgramInit
  /\ gltfClip = AssetClip
  /\ runClip = NoClip
  /\ rngSeed = 1
  /\ page = "anim2"
  /\ shaderVariant \in ShaderVariants
  /\ viewDotNormal \in DotSamples
  /\ fragAlpha = -1

FragmentShader ==
  /\ shaderVariant \in ShaderVariants
  /\ fragAlpha = -1
  /\ fragAlpha' = HologramAlpha(shaderVariant, Fresnel(shaderVariant, viewDotNormal))
  /\ UNCHANGED << pc, frame, loadState, deerModel, rngSeed, rngPos, frameVars, grassVars, trailVars,
                  page, camVars, gpuVars, instVars, shaderVariant, viewDotNormal, clipVars >>

ShaderNext == FragmentShader

ShaderSpec == ShaderInit /\ [][ShaderNext]_vars

(***************************************************************************)
(* The clip trimming on its own, applied to each of the sample clips.      *)
(***************************************************************************)
TrimInit ==
  /\ ProgramInit
  /\ rngSeed = 1
  /\ page = "anim2"
  /\ shaderVariant = "none"
  /\ viewDotNormal = 0
  /\ fragAlpha = -1
  /\ gltfClip \in SampleClips
  /\ runClip = NoClip

TrimRunClip ==
  /\ runClip = NoClip
  /\ runClip' = TrimmedClip(gltfClip)
  /\ UNCHANGED << pc, frame, loadState, deerModel, rngSeed, rngPos, frameVars, grassVars,
                  trailVars, page, camVars, gpuVars, instVars, shaderVars, gltfClip >>

TrimNext == TrimRunClip

TrimSpec == TrimInit /\ [][TrimNext]_vars

(***************************************************************************)
(*                              Properties                                 *)
(***************************************************************************)
Abs(x) == IF x < 0 THEN -x ELSE x
LiveSlots == { i \in Slots : trailLifetimes[i] > 0 }
\* The grass buffer has been written by at least one grass update.
GrassWritten == page = "anim2" /\ (frame >= 1 \/ pc \in { "emit", "age", "clamp", "render" })

\* C1: for every blade, in every reachable state (after any number of grass
\* updates with any deltas), -R <= currentZ < R.
GrassRecyclingInvariant ==
  \A b \in BladeIds :
    /\ grassBladeData[b].currentZ >= -R
    /\ grassBladeData[b].currentZ < R

\* A blade seeded at the far edge has been recycled to the front and scrolled on.
C1_Witness ==
  /\ frame >= 2
  /\ \E b \in BladeIds :
       /\ grassBladeData[b].baseZ = -R
       /\ grassBladeData[b].currentZ > 0

\* C2: between frames, the initial state included, a trail slot has
\* lifetime <= 0 exactly when its alpha is 0.
TrailActivityInvariant ==
  pc = "idle" =>
    \A i \in Slots : (trailLifetimes[i] <= 0) <=> (trailAlphas[i] = 0)

\* C3 as stated: once more particles than the capacity have been emitted, all
\* capacity slots are live between frames and each slot holds the latest particle
\* written to its index.
RingAllLive ==
  (pc = "idle" /\ emitted > maxTrailParticles) =>
    /\ Cardinality(LiveSlots) = maxTrailParticles
    /\ \A i \in Slots : slotSeq[i] % maxTrailParticles = i

\* C3 amended: once more particles than the capacity have been emitted, the
\* slots hold exactly the last capacity particles, particle k in slot
\* k mod capacity; the live slots are among them and may be fewer than capacity.
RingHoldsLatest ==
  emitted > maxTrailParticles =>
    /\ \A i \in Slots :
         /\ slotSeq[i] % maxTrailParticles = i
         /\ slotSeq[i] >= emitted - maxTrailParticles
         /\ slotSeq[i] < emitted
    /\ currentTrailIndex = emitted % maxTrailParticles
    /\ Cardinality(LiveSlots) <= maxTrailParticles

\* The buffer has wrapped and the particles of the first lap have expired.
C3_Witness ==
  /\ pc = "idle"
  /\ emitted > maxTrailParticles
  /\ Cardinality(LiveSlots) < maxTrailParticles
  /\ Cardinality(LiveSlots) > 0

\* C4 as stated: a tick that starts with emissionTimer t0 in a frame of delta d
\* (the clock's delta of that frame) emits floor((t0 + d) / emissionRate) bursts
\* and leaves the remainder in the timer: 5 bursts and 0 for t0 = 0, d = 0.1.
BurstCatchUpClockDelta ==
  [][ (pc = "emit" /\ deerModel) =>
        LET n == (emissionTimer + clockDelta) \div emissionRate
        IN  /\ emitted' = emitted + (n * particlesPerEmit)
            /\ emissionTimer' = (emissionTimer + clockDelta) - (n * emissionRate) ]_vars

\* C4 amended: with d the capped delta of the frame, the tick emits
\* n = floor((t0 + d) / emissionRate) <= 2 bursts, each writing particlesPerEmit
\* fresh slots at the write index, and leaves emissionTimer = t0 + d - n * rate
\* in [0, rate); over the ticks with the emitter present no burst is dropped
\* relative to the capped time fed to them.
BurstCatchUpCapped ==
  /\ [][ (pc = "emit" /\ deerModel) =>
           LET total == emissionTimer + delta
               n     == total \div emissionRate
           IN  /\ n <= 2
               /\ emitted' = emitted + (n * particlesPerEmit)
               /\ emissionTimer' = total - (n * emissionRate)
               /\ emissionTimer' >= 0
               /\ emissionTimer' < emissionRate
               /\ currentTrailIndex' = (currentTrailIndex + (n * particlesPerEmit))
                                          % maxTrailParticles
               /\ \A j \in 0 .. ((n * particlesPerEmit) - 1) :
                    trailLifetimes'[(currentTrailIndex + j) % maxTrailParticles]
                      = trailMaxLife ]_vars
  /\ []((page = "anim2" /\ pc \in { "age", "clamp", "render", "idle" }) =>
          /\ emitted = particlesPerEmit * (mixerTime \div emissionRate)
          /\ emissionTimer = mixerTime % emissionRate)

\* A stalled frame (capped delta) has just emitted two bursts.
C4_Witness ==
  /\ pc = "age"
  /\ deerModel
  /\ clockDelta > DeltaCap
  /\ emissionTimer + emissionRate < delta
  /\ emitted >= 2 * particlesPerEmit

\* C5 as stated: a particle whose lifetime reaches <= 0 in an aging step leaves
\* that step with y at the sentinel and alpha 0.
ExpiryHidesSameTick ==
  [][ pc = "age" =>
        \A i \in Slots :
          (trailLifetimes[i] > 0 /\ trailLifetimes[i] - delta <= 0) =>
            /\ trailLifetimes'[i] <= 0
            /\ trailAlphas'[i] = 0
            /\ trailPositions'[i][2] = SentinelY ]_vars

\* C5 amended: a particle whose lifetime reaches <= 0 in an aging step leaves
\* that step with lifetime <= 0 and alpha 0, its position still integrated;
\* its y is set to the sentinel by the aging step of every later tick until the
\* slot is reused.
ExpiryHidesNextTick ==
  [][ pc = "age" =>
        \A i \in Slots :
          /\ (trailLifetimes[i] > 0 /\ trailLifetimes[i] - delta <= 0) =>
               /\ trailLifetimes'[i] = trailLifetimes[i] - delta
               /\ trailAlphas'[i] = 0
               /\ trailPositions'[i][2] =
                    trailPositions[i][2] + ((trailVelocities'[i][2] * delta) \div 1000)
               /\ trailPositions'[i][2] # SentinelY
          /\ trailLifetimes[i] <= 0 =>
               /\ trailLifetimes'[i] = trailLifetimes[i]
               /\ trailAlphas'[i] = 0
               /\ trailPositions'[i][2] = SentinelY ]_vars

\* A particle has expired in this frame's aging step: alpha 0, not yet at the sentinel.
C5_Witness ==
  /\ pc = "render"
  /\ \E i \in Slots :
       /\ slotSeq[i] >= 0
       /\ trailLifetimes[i] <= 0
       /\ trailAlphas[i] = 0
       /\ trailPositions[i][2] # SentinelY

\* C6: from the alpha assigned at spawn on, a live particle's alpha never
\* increases in a step that does not rewrite its slot.
AlphaMonotoneFromSpawn ==
  [][ \A i \in Slots :
        (trailLifetimes[i] > 0 /\ slotSeq'[i] = slotSeq[i]) =>
          trailAlphas'[i] <= trailAlphas[i] ]_vars

\* C7: once the grass has been updated, a blade with baseX^2 + currentZ^2 <= R^2
\* (distance exactly R included) has every particle's y at its original y, and
\* any other blade has every particle's y at the sentinel.
GrassVisibility ==
  (GrassWritten /\ pc # "grass") =>
    \A b \in BladeIds : \A i \in 0 .. (particlesPerBlade - 1) :
      LET blade == grassBladeData[b]
          y     == grassPositions[blade.startIndex + i][2]
          d2    == (blade.baseX * blade.baseX) + (blade.currentZ * blade.currentZ)
      IN  /\ d2 <= R * R => (y = blade.originalPositions[i][2] /\ y # SentinelY)
          /\ d2 > R * R => y = SentinelY

\* After an update one blade sits exactly on the circle and is shown, another
\* is outside and hidden.
C7_Witness ==
  /\ pc = "emit"
  /\ \E b \in BladeIds :
       LET blade == grassBladeData[b]
       IN  /\ (blade.baseX * blade.baseX) + (blade.currentZ * blade.currentZ) = R * R
           /\ grassPositions[blade.startIndex + 1][2] = blade.originalPositions[1][2]
  /\ \E b \in BladeIds :
       LET blade == grassBladeData[b]
       IN  /\ (blade.baseX * blade.baseX) + (blade.currentZ * blade.currentZ) > R * R
           /\ grassPositions[blade.startIndex][2] = SentinelY

\* C8: one grass update takes currentZ to currentZ - runSpeed * delta, plus 2R
\* exactly when that difference is below -R; from currentZ = 0 with delta = 2.0
\* the step gives 8 (R = 12, runSpeed = 8).
GrassAdvanceStep ==
  /\ [][ pc = "grass" =>
           \A b \in BladeIds :
             LET moved == grassBladeData[b].currentZ - (runSpeed * delta)
                 added == grassBladeData'[b].currentZ - moved
             IN  /\ added \in { 0, 2 * R }
                 /\ (added = 2 * R) <=> (moved < -R) ]_vars
  /\ [](AdvanceZ(0, 2000) = 8000)

\* The first update has recycled a blade that started at the far edge.
C8_Witness ==
  /\ pc = "emit"
  /\ frame = 1
  /\ \E b \in BladeIds :
       grassBladeData[b].currentZ
         = (grassBladeData[b].baseZ - (runSpeed * delta)) + (2 * R)

\* C9: whatever the clock's delta, the delta of a frame is at most 0.033 s, and
\* so is what each use of it adds in that frame: the grass scroll, the emission
\* timer, the mixer time, the shader time, the lifetime decrement and the
\* integration step of the trail.
DeltaIsCapped ==
  /\ [](delta <= DeltaCap /\ delta <= clockDelta)
  /\ [][ /\ mixerTime' - mixerTime <= DeltaCap
         /\ shaderTime' - shaderTime <= DeltaCap
         /\ \A b \in BladeIds :
              (grassBladeData[b].currentZ - grassBladeData'[b].currentZ) % (2 * R)
                <= runSpeed * DeltaCap
         /\ (emissionTimer' - emissionTimer)
              + (((emitted' - emitted) \div particlesPerEmit) * emissionRate) <= DeltaCap
         /\ pc = "age" =>
              \A i \in Slots :
                /\ trailLifetimes[i] - trailLifetimes'[i] <= DeltaCap
                /\ trailLifetimes[i] > 0 =>
                     \A c \in 1 .. 3 :
                       Abs(trailPositions'[i][c] - trailPositions[i][c]) * 1000
                         <= (Abs(trailVelocities'[i][c]) * DeltaCap) + 1000 ]_vars

\* A stalled frame has run its whole simulation with the capped delta.
C9_Witness ==
  /\ pc = "render"
  /\ clockDelta > DeltaCap
  /\ delta = DeltaCap
  /\ deerModel
  /\ LiveSlots # {}

\* C10 as stated: every blade's seed lies in the disk of radius R.
SeedInDisk ==
  \A b \in BladeIds :
    (grassBladeData[b].baseX * grassBladeData[b].baseX)
      + (grassBladeData[b].baseZ * grassBladeData[b].baseZ) <= R * R

\* C10 amended: every blade's seed has |baseX| <= R and -R <= baseZ < R (baseX
\* from the sqrt-biased polar draw, baseZ from an independent uniform draw), so
\* it lies in the square of half-side R around the origin, not always in the disk.
SeedInSquare ==
  \A b \in BladeIds :
    /\ Abs(grassBladeData[b].baseX) <= R
    /\ grassBladeData[b].baseZ >= -R
    /\ grassBladeData[b].baseZ < R
    /\ grassBladeData[b].originalPositions[0][3] = grassBladeData[b].baseZ

\* A blade seeded outside the disk.
C10_Witness ==
  /\ frame = 0
  /\ pc = "idle"
  /\ \E b \in BladeIds :
       (grassBladeData[b].baseX * grassBladeData[b].baseX)
         + (grassBladeData[b].baseZ * grassBladeData[b].baseZ) > R * R

\* C11: while the load callback has not stored the deer model, no frame spawns
\* a trail particle: the trail state (emissionTimer, write index, slots) is
\* unchanged and every slot is inactive, while the grass is scrolled and the
\* frame is drawn; particles are spawned only by frames after the callback.
NoEmissionBeforeLoad ==
  /\ [](~deerModel =>
          /\ emitted = 0
          /\ emissionTimer = 0
          /\ currentTrailIndex = 0
          /\ ~deerPosInitialized
          /\ \A i \in Slots : trailLifetimes[i] = 0 /\ slotSeq[i] = -1)
  /\ [][ (~deerModel /\ pc = "emit") => (UNCHANGED trailVars /\ pc' = "age") ]_vars
  /\ [][ (~deerModel /\ pc = "grass") => scrolled' = scrolled + (runSpeed * delta) ]_vars
  /\ [][ (~deerModel /\ pc = "render") => frame' = frame + 1 ]_vars
  /\ [][ emitted' > emitted => (deerModel /\ loadState = "loaded" /\ frame >= 1) ]_vars

\* Two frames have run and drawn scrolled grass while the load is still pending.
C11_Witness ==
  /\ page = "anim2"
  /\ pc = "idle"
  /\ frame >= 2
  /\ loadState = "pending"
  /\ ~deerModel
  /\ scrolled > 0

\* C12: once the load has failed, the deer model and the mixer stay unset, no
\* particle is ever emitted, and every later frame runs each of its steps
\* (grass update, trail aging, camera clamp, draw) to the end.
LoadFailureNotFatal ==
  /\ [](loadState = "failed" =>
          /\ ~deerModel
          /\ mixerTime = 0
          /\ shaderTime = 0
          /\ emitted = 0
          /\ LiveSlots = {})
  /\ [][ loadState = "failed" => loadState' = "failed" ]_vars
  /\ [][ (loadState = "failed" /\ page = "anim2") =>
           /\ pc = "idle" => (pc' = "grass" /\ delta' = Min(clockDelta', DeltaCap))
           /\ pc = "grass" => (pc' = "emit" /\ scrolled' = scrolled + (runSpeed * delta))
           /\ pc = "emit" => (pc' = "age" /\ UNCHANGED trailVars)
           /\ pc = "age" =>
                /\ pc' = "clamp"
                /\ \A i \in Slots : trailAlphas'[i] = 0 /\ trailPositions'[i][2] = SentinelY
           /\ pc = "clamp" => pc' = "render"
           /\ pc = "render" => (pc' = "idle" /\ frame' = frame + 1) ]_vars

\* The load failed after the first frame and every later frame has been drawn.
C12_Witness ==
  /\ page = "anim2"
  /\ loadState = "failed"
  /\ pc = "idle"
  /\ frame = MaxFrames
  /\ scrolled > runSpeed * DeltaCap

DirtyBeforeDraw ==
  /\ [](pc = "render" =>
          /\ unflagged = {}
          /\ page = "anim2" =>
               { "grassPosition", "trailPosition", "trailColor", "trailSize", "trailAlpha" }
                 \subseteq needsUpdate
          /\ page = "instanced" => "instanceOffset" \in needsUpdate)
  /\ [](unflagged \subseteq { "trailPosition", "trailColor", "trailSize", "trailAlpha" })
  /\ [][ unflagged' # {} => pc = "emit" ]_vars

\* A frame that has spawned and aged particles is about to be drawn.
C15_Witness ==
  /\ pc = "render"
  /\ page = "anim2"
  /\ \E i \in Slots : trailLifetimes[i] + delta = trailMaxLife /\ delta > 0
  /\ unflagged = {}
  /\ "trailAlpha" \in needsUpdate

\* C16: every spawn writes the slot at the write index, whatever it holds, and
\* advances the index by one modulo the capacity: the index stays in
\* 0 .. capacity - 1, and the particles of a tick fill consecutive slots in
\* circular order, the other slots keeping their particle.
RingWriteOrder ==
  /\ [](currentTrailIndex >= 0 /\ currentTrailIndex < maxTrailParticles)
  /\ [](\A i \in Slots : slotSeq[i] >= 0 => slotSeq[i] % maxTrailParticles = i)
  /\ [][ (pc = "emit" /\ deerModel) =>
           LET n       == emitted' - emitted
               written == { (currentTrailIndex + j) % maxTrailParticles : j \in 0 .. (n - 1) }
           IN  /\ n >= 0
               /\ currentTrailIndex' = (currentTrailIndex + n) % maxTrailParticles
               /\ \A j \in 0 .. (n - 1) :
                    LET i == (currentTrailIndex + j) % maxTrailParticles
                    IN  /\ slotSeq'[i] = emitted + j
                        /\ trailLifetimes'[i] = trailMaxLife
               /\ \A i \in Slots \ written :
                    /\ slotSeq'[i] = slotSeq[i]
                    /\ trailLifetimes'[i] = trailLifetimes[i] ]_vars

\* The index has wrapped and a spawn has just reused a slot written before.
C16_Witness ==
  /\ pc = "age"
  /\ emitted > maxTrailParticles
  /\ \E i \in Slots :
       /\ slotSeq[i] >= maxTrailParticles
       /\ trailLifetimes[i] = trailMaxLife
       /\ currentTrailIndex = NextIndex(i)

\* C17: for each of the hologram shaders and each fresnel value in [0, 1] the
\* fragment's alpha is clamp(fresnel * k2 + k3, 0, 1), the shader's own k2 and
\* k3, and so lies in [0, 1].
HologramAlphaInRange ==
  fragAlpha # -1 =>
    LET f == Fresnel(shaderVariant, viewDotNormal)
    IN  /\ f >= 0
        /\ f <= 1000
        /\ fragAlpha >= 0
        /\ fragAlpha <= 1000
        /\ fragAlpha
             = Max(0, Min(1000, ((f * AlphaGain(shaderVariant)) \div 1000)
                                  + AlphaBase(shaderVariant)))

\* C18: once a frame has updated the grass, the ripples' worldOffset (elapsed
\* time * runSpeed) equals the distance the grass has been scrolled (the sum of
\* runSpeed * delta over the frames), stalled frames included.
RippleDriftMatchesScroll ==
  (page = "anim2" /\ pc \in { "emit", "age", "clamp", "render", "idle" }) =>
    time * runSpeed = scrolled

\* C19: a tick with the emitter present adds the emitter's displacement since
\* the previous such tick (none on the first) to the position of exactly the
\* particles with lifetime > 0, before it spawns; it records the emitter's
\* position without the spawn height offset.
EmitterDisplacementStep ==
  /\ [](deerPosInitialized => prevDeerPos = << 0, 500, 0 >>)
  /\ [][ (pc = "emit" /\ deerModel) =>
           LET d == IF deerPosInitialized
                    THEN << 0 - prevDeerPos[1], 500 - prevDeerPos[2], 0 - prevDeerPos[3] >>
                    ELSE << 0, 0, 0 >>
           IN  /\ \A i \in Slots :
                    slotSeq'[i] = slotSeq[i] =>
                      trailPositions'[i]
                        = IF trailLifetimes[i] > 0
                          THEN << trailPositions[i][1] + d[1], trailPositions[i][2] + d[2],
                                  trailPositions[i][3] + d[3] >>
                          ELSE trailPositions[i]
               /\ \A i \in Slots :
                    slotSeq'[i] # slotSeq[i] =>
                      /\ trailPositions'[i][2] >= 2000 - 250
                      /\ trailPositions'[i][2] <= 2000 + 250
               /\ prevDeerPos' = << 0, 500, 0 >>
               /\ deerPosInitialized' ]_vars
  /\ [][ (pc = "emit" /\ deerModel /\ ~deerPosInitialized) =>
           \A i \in Slots : trailLifetimes[i] <= 0 ]_vars

\* A tick after the first has moved particles of earlier ticks and spawned new ones.
C19_Witness ==
  /\ pc = "age"
  /\ deerPosInitialized
  /\ \E i \in Slots : trailLifetimes[i] > 0 /\ trailLifetimes[i] < trailMaxLife
  /\ \E i \in Slots : trailLifetimes[i] = trailMaxLife

\* C20: the aging step takes a particle with lifetime > 0 to lifetime - delta,
\* velocity * 0.995, position + (damped velocity) * delta,
\* alpha = max(0, lifetime / maxLifetime) and size * 0.998; its lifetime and
\* its size strictly decrease.
ActiveParticleAging ==
  [][ pc = "age" =>
        \A i \in Slots :
          trailLifetimes[i] > 0 =>
            /\ trailLifetimes'[i] = trailLifetimes[i] - delta
            /\ \A c \in 1 .. 3 :
                 /\ trailVelocities'[i][c] = (trailVelocities[i][c] * 995) \div 1000
                 /\ trailPositions'[i][c]
                      = trailPositions[i][c] + ((trailVelocities'[i][c] * delta) \div 1000)
            /\ trailAlphas'[i]
                 = (IF trailLifetimes'[i] > 0
                    THEN (trailLifetimes'[i] * AlphaDen) \div trailMaxLife ELSE 0)
            /\ trailSizes'[i] = (trailSizes[i] * 998) \div 1000
            /\ trailLifetimes'[i] < trailLifetimes[i]
            /\ trailSizes'[i] < trailSizes[i] ]_vars

\* A particle has been aged in at least two frames and is still active.
C20_Witness ==
  /\ pc = "clamp"
  /\ \E i \in Slots :
       /\ trailLifetimes[i] > 0
       /\ trailLifetimes[i] < trailMaxLife - DeltaCap
       /\ trailAlphas[i] > 0
       /\ trailSizes[i] < 2200

\* C21: from the first invocation of animate() on, a callback for the next
\* frame is queued in every state: during each frame, after a frame that was
\* drawn, after a frame whose last step threw, and while the model is missing.
FrameLoopNeverHalts ==
  (frame >= 1 \/ pc # "idle") => rafPending

\* A frame run without the model has thrown at its draw call, and the next
\* frame is queued.
C21_Witness ==
  /\ pc = "idle"
  /\ frame >= 2
  /\ ~deerModel
  /\ needsUpdate # {}
  /\ rafPending

\* C22: once the clip has been trimmed, each track of the trimmed clip holds
\* exactly the keyframes of the asset's track whose time is >= 4.7 s, in their
\* order, each time reduced by 4.7 s and each value tuple unchanged (stride
\* values per retained keyframe), and the duration is the old one minus 4.7 s.
ClipTrimming ==
  runClip # NoClip =>
    /\ runClip.duration = gltfClip.duration - 4700
    /\ Len(runClip.tracks) = Len(gltfClip.tracks)
    /\ \A k \in 1 .. Len(gltfClip.tracks) :
         LET old     == gltfClip.tracks[k]
             new     == runClip.tracks[k]
             kept    == { i \in 1 .. Len(old.times) : old.times[i] >= 4700 }
             rank(i) == Cardinality({ j \in kept : j <= i })
             stride  == IF Len(old.times) = 0 THEN 0 ELSE Len(old.values) \div Len(old.times)
         IN  /\ Len(new.times) = Cardinality(kept)
             /\ Len(new.values) = stride * Cardinality(kept)
             /\ \A i \in kept :
                  /\ new.times[rank(i)] = old.times[i] - 4700
                  /\ \A j \in 1 .. stride :
                       new.values[((rank(i) - 1) * stride) + j]
                         = old.values[((i - 1) * stride) + j]

\* A track with a keyframe before the cutoff, one exactly at it and one after
\* it has been trimmed to the last two, the first of them now at time 0.
C22_Witness ==
  /\ runClip # NoClip
  /\ gltfClip.tracks[1].times = << 4699, 4700, 6000 >>
  /\ runClip.tracks[1].times = << 0, 1300 >>
  /\ Len(runClip.tracks[1].values) = 6
  /\ gltfClip.tracks[2].times = << 0, 4701, 6000 >>
  /\ runClip.tracks[2].values = << 4702, 4703, 4704, 4705, 6001, 6002, 6003, 6004 >>

\* C23: a step changes, of a blade's record, nothing but currentZ, and that
\* only in the frame's grass update: baseX, baseZ, height, curve, randomOffset,
\* startIndex and originalPositions keep their initial values; the number of
\* blades and the sizes of the grass and trail buffers stay as allocated.
BladeParamsFrozen ==
  /\ [][ \A b \in BladeIds :
           /\ [ grassBladeData'[b] EXCEPT !.currentZ = 0 ]
                = [ grassBladeData[b] EXCEPT !.currentZ = 0 ]
           /\ pc # "grass" => grassBladeData'[b].currentZ = grassBladeData[b].currentZ ]_vars
  /\ [](/\ DOMAIN grassBladeData = 0 .. (numBlades - 1)
        /\ DOMAIN grassPositions = 0 .. ((numBlades * particlesPerBlade) - 1)
        /\ \A b \in BladeIds :
             /\ DOMAIN grassBladeData[b].originalPositions = 0 .. (particlesPerBlade - 1)
             /\ grassBladeData[b].startIndex = b * particlesPerBlade
             /\ grassBladeData[b].originalPositions[0][3] = grassBladeData[b].baseZ
        /\ DOMAIN trailPositions = 0 .. (maxTrailParticles - 1)
        /\ DOMAIN trailVelocities = 0 .. (maxTrailParticles - 1)
        /\ DOMAIN trailLifetimes = 0 .. (maxTrailParticles - 1)
        /\ DOMAIN trailAlphas = 0 .. (maxTrailParticles - 1)
        /\ DOMAIN trailSizes = 0 .. (maxTrailParticles - 1))

\* Several grass updates have scrolled a blade away from its seed position.
C23_Witness ==
  /\ page = "anim2"
  /\ pc = "emit"
  /\ frame >= 3
  /\ \E b \in BladeIds :
       /\ grassBladeData[b].currentZ < grassBladeData[b].baseZ - (runSpeed * DeltaCap)
       /\ grassBladeData[b].originalPositions[0][3] = grassBladeData[b].baseZ

\* C24: once the grass has been updated, for every visible blade the particle
\* at index 0 is at exactly (its original x, its original y, currentZ), every
\* particle's y is its original y, and a particle's x and z differ from the
\* original x and from currentZ by at most its influence t^1.2,
\* t = i / (particlesPerBlade - 1), times the summed amplitudes of the waves
\* and ripples (2.24 in x, 1.175 in z).
RootStaysPlanted ==
  (GrassWritten /\ pc # "grass") =>
    \A b \in BladeIds :
      LET blade == grassBladeData[b]
      IN  (blade.baseX * blade.baseX) + (blade.currentZ * blade.currentZ) <= R * R =>
            /\ grassPositions[blade.startIndex]
                 = << blade.originalPositions[0][1], blade.originalPositions[0][2],
                      blade.currentZ >>
            /\ \A i \in 0 .. (particlesPerBlade - 1) :
                 LET p   == grassPositions[blade.startIndex + i]
                     inf == Pow12((i * 1000) \div (particlesPerBlade - 1))
                 IN  /\ p[2] = blade.originalPositions[i][2]
                     /\ Abs(p[1] - blade.originalPositions[i][1]) * 1000
                          <= (inf * 2240) + 3000
                     /\ Abs(p[3] - blade.currentZ) * 1000 <= (inf * 1175) + 2000

\* A visible blade's tip has been swayed in x and z while its root is in place.
C24_Witness ==
  /\ page = "anim2"
  /\ pc = "emit"
  /\ frame >= 2
  /\ \E b \in BladeIds :
       LET blade == grassBladeData[b]
           tip   == grassPositions[blade.startIndex + (particlesPerBlade - 1)]
       IN  /\ (blade.baseX * blade.baseX) + (blade.currentZ * blade.currentZ) <= R * R
           /\ blade.currentZ # blade.baseZ
           /\ tip[1] # blade.originalPositions[particlesPerBlade - 1][1]
           /\ tip[3] # blade.currentZ
           /\ grassPositions[blade.startIndex][1] = blade.originalPositions[0][1]
           /\ grassPositions[blade.startIndex][3] = blade.currentZ

\* C25 as stated: in a tick with the emitter present the side sign is -1 or +1
\* (+1 at time 0, where the sine is exactly 0), and every particle spawned in
\* the tick lies on that side of the emitter, has a lateral velocity component
\* of that sign, and has the velocity of the other particles of its burst.
SideFlipParticleSide ==
  /\ SideSign(0) = 1
  /\ (page = "anim2" /\ pc = "age" /\ deerModel) =>
       LET s == IF ((time * 1000) % 7853982) < 3926991 THEN 1 ELSE -1
       IN  \A i \in Slots :
             (slotSeq[i] >= 0 /\ trailLifetimes[i] = trailMaxLife) =>
               /\ (-trailPositions[i][1]) * s > 0
               /\ (-trailVelocities[i][1]) * s > 0
               /\ \A j \in Slots :
                    slotSeq[j] \div particlesPerEmit = slotSeq[i] \div particlesPerEmit =>
                      trailVelocities[j] = trailVelocities[i]

\* C25 amended: the side sign is -1 or +1 (+1 at time 0) and is the same for
\* every burst of a tick; every particle spawned in the tick has the velocity of
\* the other particles of its burst, whose lateral component (along the
\* emitter's right axis) has that sign and a magnitude in [0.1, 0.9); the
\* particle's lateral offset from the emitter is that same signed value plus a
\* per-particle spread in [-0.5, 0.5), so it need not have the sign.
SideFlipSign ==
  /\ SideSign(0) = 1
  /\ (page = "anim2" /\ pc = "age" /\ deerModel) =>
       LET s == IF ((time * 1000) % 7853982) < 3926991 THEN 1 ELSE -1
       IN  \A i \in Slots :
             (slotSeq[i] >= 0 /\ trailLifetimes[i] = trailMaxLife) =>
               LET lat == -trailVelocities[i][1]
               IN  /\ lat * s >= 100
                   /\ lat * s < 900
                   /\ (-trailPositions[i][1]) - lat >= -500
                   /\ (-trailPositions[i][1]) - lat <= 500
                   /\ \A j \in Slots :
                        slotSeq[j] \div particlesPerEmit = slotSeq[i] \div particlesPerEmit =>
                          trailVelocities[j] = trailVelocities[i]

\* After a stall the side has flipped to -1 and the tick has spawned two bursts
\* with different lateral velocities of that sign.
C25_Witness ==
  /\ page = "anim2"
  /\ pc = "age"
  /\ deerModel
  /\ ((time * 1000) % 7853982) >= 3926991
  /\ \E i, j \in Slots :
       /\ trailLifetimes[i] = trailMaxLife
       /\ trailLifetimes[j] = trailMaxLife
       /\ slotSeq[j] \div particlesPerEmit = (slotSeq[i] \div particlesPerEmit) + 1
       /\ trailVelocities[i][1] > 0
       /\ trailVelocities[j][1] > 0
       /\ trailVelocities[i] # trailVelocities[j]

RipplesDieOut ==
  [][ (pc = "grass" /\ time * 8 > 24000) =>
        \A b \in BladeIds :
          LET blade == grassBladeData'[b]
          IN  /\ blade.currentZ >= -12000
              /\ blade.currentZ < 12000
              /\ \A n \in 1 .. 3 :
                   RippleEffect(n, blade.baseX, blade.currentZ, time) = 0 ]_vars

\* A grass update has run after T: the blade is visible and its tip is moved by
\* the waves alone.
C27_Witness ==
  /\ page = "anim2"
  /\ pc = "emit"
  /\ time * 8 > 24000
  /\ \E b \in BladeIds :
       LET blade == grassBladeData[b]
           tip   == grassPositions[blade.startIndex + (particlesPerBlade - 1)]
       IN  /\ (blade.baseX * blade.baseX) + (blade.currentZ * blade.currentZ) <= R * R
           /\ tip[1] # blade.originalPositions[particlesPerBlade - 1][1]
           /\ TotalRippleBase(blade.baseX, blade.currentZ, time) = 0

\* C28: with a capacity of at least burst size * (lifetime / interval + 2), the
\* number of slots with lifetime > 0 never exceeds that product, and a spawn
\* never writes a slot whose lifetime is > 0, neither one spawned in an earlier
\* tick nor one spawned earlier in the same tick.
NoLiveParticleStolen ==
  /\ [](Cardinality({ i \in Slots : trailLifetimes[i] > 0 })
          <= particlesPerEmit * ((trailMaxLife \div emissionRate) + 2))
  /\ [][ pc = "emit" =>
           /\ emitted' - emitted <= maxTrailParticles
           /\ \A i \in Slots : slotSeq'[i] # slotSeq[i] => trailLifetimes[i] <= 0 ]_vars

\* The write index has gone round the buffer onto expired slots, and the
\* tick's spawn has brought the live particles to within one burst of the bound.
C28_Witness ==
  /\ pc = "age"
  /\ maxTrailParticles >= particlesPerEmit * ((trailMaxLife \div emissionRate) + 2)
  /\ emitted > maxTrailParticles
  /\ Cardinality(LiveSlots) >= particlesPerEmit * ((trailMaxLife \div emissionRate) + 1)

\* C29: a grass update writes, for a blade that is invisible after its
\* advance, only y (the sentinel) of each of its particles, leaving the x and z
\* entries as they were; for a blade that is visible, the one just revealed
\* included, it writes all three coordinates of every particle: the displaced
\* x, the original y and the displaced z around currentZ.
HiddenBladesKeepStale ==
  [][ pc = "grass" =>
        \A b \in BladeIds : \A i \in 0 .. (particlesPerBlade - 1) :
          LET blade == grassBladeData'[b]
              p     == (b * particlesPerBlade) + i
              inf   == Pow12((i * 1000) \div (particlesPerBlade - 1))
          IN  IF (blade.baseX * blade.baseX) + (blade.currentZ * blade.currentZ) > R * R
              THEN /\ grassPositions'[p][1] = grassPositions[p][1]
                   /\ grassPositions'[p][2] = -1000000
                   /\ grassPositions'[p][3] = grassPositions[p][3]
              ELSE /\ grassPositions'[p] = Displaced(blade, i, time)
                   /\ grassPositions'[p][2] = blade.originalPositions[i][2]
                   /\ Abs(grassPositions'[p][1] - blade.originalPositions[i][1]) * 1000
                        <= (inf * 2240) + 3000
                   /\ Abs(grassPositions'[p][3] - blade.currentZ) * 1000
                        <= (inf * 1175) + 2000 ]_vars

\* One blade, seeded outside the circle and hidden in the first frame, has
\* scrolled into it and has its y back and its z at currentZ; another, seeded
\* inside, has scrolled out and keeps the x and z of its last visible frame.
C29_Witness ==
  /\ page = "anim2"
  /\ pc = "emit"
  /\ \E b \in BladeIds :
       LET blade == grassBladeData[b]
       IN  /\ (blade.baseX * blade.baseX) + (blade.baseZ * blade.baseZ) > R * R
           /\ (blade.baseX * blade.baseX) + (blade.currentZ * blade.currentZ) <= R * R
           /\ blade.currentZ < blade.baseZ
           /\ grassPositions[blade.startIndex][2] = blade.originalPositions[0][2]
           /\ grassPositions[blade.startIndex][3] = blade.currentZ
  /\ \E b \in BladeIds :
       LET blade == grassBladeData[b]
           tip   == grassPositions[blade.startIndex + (particlesPerBlade - 1)]
       IN  /\ (blade.baseX * blade.baseX) + (blade.baseZ * blade.baseZ) <= R * R
           /\ (blade.baseX * blade.baseX) + (blade.currentZ * blade.currentZ) > R * R
           /\ tip[2] = SentinelY
           /\ tip[3] # blade.currentZ
           /\ tip[3] # blade.baseZ

\* C30: for a slot with lifetime <= 0 the aging step changes only y (to the
\* sentinel) and alpha (to 0); no step changes its lifetime, velocity, size, x
\* or z until a spawn rewrites the slot; every slot's lifetime is above -0.033 s
\* and at most the maximum lifetime in every reachable state.
InactiveSlotsFrozen ==
  /\ [][ pc = "age" =>
           \A i \in Slots :
             trailLifetimes[i] <= 0 =>
               /\ trailPositions'[i] = << trailPositions[i][1], -1000000, trailPositions[i][3] >>
               /\ trailAlphas'[i] = 0 ]_vars
  /\ [][ \A i \in Slots :
           (trailLifetimes[i] <= 0 /\ slotSeq'[i] = slotSeq[i]) =>
             /\ trailLifetimes'[i] = trailLifetimes[i]
             /\ trailVelocities'[i] = trailVelocities[i]
             /\ trailSizes'[i] = trailSizes[i]
             /\ trailPositions'[i][1] = trailPositions[i][1]
             /\ trailPositions'[i][3] = trailPositions[i][3] ]_vars
  /\ [](\A i \in Slots : trailLifetimes[i] > -33 /\ trailLifetimes[i] <= trailMaxLife)

\* A particle has expired below 0 and has since been through an aging step as
\* an inactive slot: hidden, its lifetime, velocity and size as they were.
C30_Witness ==
  /\ pc = "clamp"
  /\ \E i \in Slots :
       /\ slotSeq[i] >= 0
       /\ trailLifetimes[i] < 0
       /\ trailPositions[i][2] = SentinelY
       /\ trailAlphas[i] = 0
       /\ trailVelocities[i][3] # 0
       /\ trailSizes[i] # 300

====
